---- MODULE Spec2Model ----
\* Google Drive file -> Document conversion
\* (backend/onyx/connectors/google_drive/doc_conversion.py).
\*
\* _extract_sections_basic and convert_drive_item_to_document are modelled as
\* one sequential program: pc is the position in the code, every call to an
\* outside collaborator (Sheets / Drive / Docs API, decoders) is a step whose
\* outcome (a value or a raised exception) is chosen nondeterministically,
\* and trace records the calls made with their outcomes.
EXTENDS Integers, Sequences, FiniteSets, TLC

\* ------------------------------------------------------------------ bounds
MaxSheets == 3          \* sheets in a native spreadsheet / worksheets in a workbook
MaxColumnCount == 54    \* every declared columnCount in 1..MaxColumnCount is tried ...
MaxDocSections == 2     \* sections get_document_sections returns

\* ------------------------------------------------------------- MIME types
\* the members of GDriveMimeType the code names, each standing for its value
DOC == "GDriveMimeType.DOC"
SPREADSHEET == "GDriveMimeType.SPREADSHEET"
PPT == "GDriveMimeType.PPT"
SPREADSHEET_OPEN_FORMAT == "GDriveMimeType.SPREADSHEET_OPEN_FORMAT"
SPREADSHEET_MS_EXCEL == "GDriveMimeType.SPREADSHEET_MS_EXCEL"
PLAIN_TEXT == "GDriveMimeType.PLAIN_TEXT"
MARKDOWN == "GDriveMimeType.MARKDOWN"
WORD_DOC == "GDriveMimeType.WORD_DOC"
POWERPOINT == "GDriveMimeType.POWERPOINT"
PDF == "GDriveMimeType.PDF"
\* stands for a member of GDriveMimeType that no branch of the extractor names
\* (the case the catch-all at the end of the extractor is written for)
UNHANDLED_MEMBER == "GDriveMimeType.<a member no branch names>"

GDriveMimeType ==
    { DOC, SPREADSHEET, PPT, SPREADSHEET_OPEN_FORMAT, SPREADSHEET_MS_EXCEL,
      PLAIN_TEXT, MARKDOWN, WORD_DOC, POWERPOINT, PDF, UNHANDLED_MEMBER }

DRIVE_SHORTCUT_TYPE == "DRIVE_SHORTCUT_TYPE"
DRIVE_FOLDER_TYPE == "DRIVE_FOLDER_TYPE"
IMAGE_PNG == "image/png"
MimeAbsent == "<no mimeType key>"

MimeTypes ==
    GDriveMimeType \cup { DRIVE_SHORTCUT_TYPE, DRIVE_FOLDER_TYPE, IMAGE_PNG, MimeAbsent }

\* a file descriptor: the keys the code reads whose presence or form decides a
\* branch. "id" and "webViewLink" are always present.
Files ==
    [ mimeType : MimeTypes, has_name : BOOLEAN, modifiedTime : {"iso", "malformed"} ]

NoFile == [ mimeType |-> MimeAbsent, has_name |-> FALSE, modifiedTime |-> "malformed" ]

\* --------------------------------------------------------------- exceptions
ERRORS_TO_CONTINUE_ON ==
    { "cannotExportFile", "exportSizeLimitExceeded", "cannotDownloadFile" }

Reasons == ERRORS_TO_CONTINUE_ON \cup { "rateLimitExceeded" }

Exc(type, status, reason) == [ type |-> type, status |-> status, reason |-> reason ]

NoExc == Exc("none", 0, "")
KeyError == Exc("KeyError", 0, "")
ValueError == Exc("ValueError", 0, "")
\* any exception a collaborator raises that is not an HttpError (a timeout, a
\* refresh error, a decoder's own error, a UnicodeDecodeError ...)
OtherError == Exc("Exception", 0, "")

HttpErrors == { Exc("HttpError", s, r) : s \in {403, 500}, r \in Reasons }

\* what a call to the Drive or Docs API can raise
ApiErrors == HttpErrors \cup { OtherError }

\* what a call to the Sheets API can raise (the reasons of
\* ERRORS_TO_CONTINUE_ON are reasons of Drive downloads and exports)
SheetsErrors == { Exc("HttpError", 429, "rateLimitExceeded"), OtherError }

IsHttpError(e) == e.type = "HttpError"

\* ----------------------------------------------------------------- sections
NoGid == -1

Link(url, gid) == [ url |-> url, gid |-> gid ]

WebViewLink == Link("webViewLink", NoGid)

Section(link, text) == [ link |-> link, text |-> text ]

UNSUPPORTED_FILE_TYPE_CONTENT == "UNSUPPORTED_FILE_TYPE_CONTENT"
EXCEL_ERROR_CONTENT == "Error extracting data from Excel file"
IGNORE_FOR_QA == "IGNORE_FOR_QA"

SheetName(i) == "S" \o ToString(i)

\* sheetId of the i-th sheet of a spreadsheet (the first sheet has gid 0)
SheetId(i) == i - 1

\* ----------------------------------------------------- column-letter loop
Letters ==
    << "A", "B", "C", "D", "E", "F", "G", "H", "I", "J", "K", "L", "M",
       "N", "O", "P", "Q", "R", "S", "T", "U", "V", "W", "X", "Y", "Z" >>

chr(c) == Letters[c - 64]

\* one pass of the body of `while column_count:`
\*     column_count, remainder = divmod(column_count - 1, 26)
\*     end_column = chr(65 + remainder) + end_column
ColumnStepNoDecrement(cc, ec) ==
    [ column_count |-> cc \div 26,
      end_column |-> << chr(65 + (cc % 26)) >> \o ec ]

ColumnStep(cc, ec) ==
    [ column_count |-> (cc - 1) \div 26,
      end_column |-> << chr(65 + ((cc - 1) % 26)) >> \o ec ]

\* the column counts a sheet can declare: all the small ones, and the two
\* around the step from two letters to three
ColumnCounts == (1..MaxColumnCount) \cup { 702, 703 }

\* ------------------------------------------------------------------- state
VARIABLES
    CONTINUE_ON_CONNECTOR_FAILURE,  \* configuration flag, fixed for a run
    pc,             \* position in the code
    caller,         \* who called _extract_sections_basic: "top" or "convert"
    file,           \* the file descriptor of the call
    sections,       \* convert_drive_item_to_document: local `sections`
    result,         \* outcome of convert_drive_item_to_document
    basic,          \* outcome of _extract_sections_basic
    exc,            \* the exception being raised, on its way to a handler
    xcaught,        \* the exception the extractor's outer handler caught
    ccaught,        \* the exception the assembler's outer handler caught
    sheet_count,    \* len(spreadsheet["sheets"])
    sheet_idx,      \* position of the for-loop over the sheets
    xsections,      \* _extract_sections_basic: local `sections` of the sheets branch
    declared,       \* the columnCount read from the sheet's gridProperties
    column_count,   \* local `column_count` of the while loop
    end_column,     \* local `end_column`, a sequence of letters
    trace           \* the collaborator calls made so far, with their outcomes

vars ==
    << CONTINUE_ON_CONNECTOR_FAILURE, pc, caller, file, sections, result, basic,
       exc, xcaught, ccaught, sheet_count, sheet_idx, xsections, declared,
       column_count, end_column, trace >>

convertVars == << sections, result, ccaught >>
sheetVars == << sheet_count, sheet_idx, xsections >>
columnVars == << declared, column_count, end_column >>

\* outcomes of the two functions
Pending == [ kind |-> "pending", sections |-> << >>, metadata |-> {}, exc |-> NoExc ]
Return(secs) == [ kind |-> "return", sections |-> secs, metadata |-> {}, exc |-> NoExc ]
Raise(e) == [ kind |-> "raise", sections |-> << >>, metadata |-> {}, exc |-> e ]
None == [ kind |-> "none", sections |-> << >>, metadata |-> {}, exc |-> NoExc ]
Document(secs, md) == [ kind |-> "doc", sections |-> secs, metadata |-> md, exc |-> NoExc ]

\* one collaborator call: what was called, on what, and how it ended
Ev(call, arg, ret, e) == [ call |-> call, arg |-> arg, ret |-> ret, exc |-> e ]

Ok(ret) == [ ret |-> ret, exc |-> NoExc ]
Fails(errors) == { [ ret |-> "raise", exc |-> e ] : e \in errors }

Init ==
    /\ CONTINUE_ON_CONNECTOR_FAILURE \in BOOLEAN
    /\ pc = "idle"
    /\ caller = "top"
    /\ file = NoFile
    /\ sections = << >>
    /\ result = Pending
    /\ basic = Pending
    /\ exc = NoExc
    /\ xcaught = NoExc
    /\ ccaught = NoExc
    /\ sheet_count = 0
    /\ sheet_idx = 0
    /\ xsections = << >>
    /\ declared = 0
    /\ column_count = 0
    /\ end_column = << >>
    /\ trace = << >>

\* =================================================== _extract_sections_basic

\* a direct call of _extract_sections_basic(file, service)
CallExtract ==
    /\ pc = "idle"
    /\ \E f \in Files : file' = f
    /\ caller' = "top"
    /\ pc' = "x_entry"
    /\ UNCHANGED << CONTINUE_ON_CONNECTOR_FAILURE, convertVars, basic, exc, xcaught,
                    sheetVars, columnVars, trace >>

\* the if / elif / if chain from the export branch on: which branch takes a
\* supported MIME type that the two spreadsheet branches did not return for
SecondDispatchSheetsToExcel(m) ==
    IF m = SPREADSHEET THEN "x_excel"
    ELSE IF m \in { DOC, PPT } THEN "x_export"
    ELSE IF m \in { PLAIN_TEXT, MARKDOWN } THEN "x_plain"
    ELSE IF m \in { WORD_DOC, POWERPOINT, PDF } THEN "x_binary"
    ELSE "x_catch_all"

SecondDispatch(m) ==
    IF m \in { DOC, PPT, SPREADSHEET } THEN "x_export"
    ELSE IF m \in { PLAIN_TEXT, MARKDOWN } THEN "x_plain"
    ELSE IF m \in { WORD_DOC, POWERPOINT, PDF } THEN "x_binary"
    ELSE "x_catch_all"

\* the first if / elif of the try block
FirstDispatch(m) ==
    IF m = SPREADSHEET THEN "x_sheets"
    ELSE IF m \in { SPREADSHEET_OPEN_FORMAT, SPREADSHEET_MS_EXCEL } THEN "x_excel"
    ELSE SecondDispatch(m)

\* what the extractor returns for a MIME type outside the supported set
UnsupportedResultEmpty(link) == << >>

UnsupportedResult(link) == << Section(link, UNSUPPORTED_FILE_TYPE_CONTENT) >>

\* file["mimeType"], file["webViewLink"], the supported-type test, and the
\* entry into the try block
ExtractEntry ==
    /\ pc = "x_entry"
    /\ IF file.mimeType = MimeAbsent
         THEN /\ basic' = Raise(KeyError)
              /\ pc' = "x_return"
         ELSE IF file.mimeType \notin GDriveMimeType
           THEN /\ basic' = Return(UnsupportedResult(WebViewLink))
                /\ pc' = "x_return"
           ELSE /\ basic' = Pending
                /\ pc' = FirstDispatch(file.mimeType)
    /\ UNCHANGED << CONTINUE_ON_CONNECTOR_FAILURE, caller, file, convertVars, exc,
                    xcaught, sheetVars, columnVars, trace >>

\* build("sheets", ...) and spreadsheets().get(spreadsheetId).execute()
SheetsMetadata ==
    /\ pc = "x_sheets"
    /\ \E o \in { [ ret |-> "ok", n |-> n, exc |-> NoExc ] : n \in 1..MaxSheets }
             \cup { [ ret |-> "raise", n |-> 0, exc |-> e ] : e \in SheetsErrors } :
         /\ trace' = Append(trace, Ev("spreadsheets.get", "id", o.ret, o.exc))
         /\ IF o.ret = "ok"
              THEN /\ sheet_count' = o.n
                   /\ sheet_idx' = 1
                   /\ xsections' = << >>
                   /\ exc' = NoExc
                   /\ pc' = "x_sheet"
              ELSE /\ exc' = o.exc
                   /\ pc' = "x_sheets_except"
                   /\ UNCHANGED sheetVars
    /\ UNCHANGED << CONTINUE_ON_CONNECTOR_FAILURE, caller, file, convertVars, basic,
                    xcaught, columnVars >>

\* head of the for-loop body: the sheet's title, id and grid properties, and
\* the first test of `while column_count:`
SheetHead ==
    /\ pc = "x_sheet"
    /\ \E c \in ColumnCounts :
         /\ declared' = c
         /\ column_count' = c
         /\ end_column' = << >>
         /\ pc' = IF c # 0 THEN "x_while" ELSE "x_fetch"
    /\ UNCHANGED << CONTINUE_ON_CONNECTOR_FAILURE, caller, file, convertVars, basic,
                    exc, xcaught, sheetVars, trace >>

\* one pass of the while loop, and the next test of its condition
ColumnLoop ==
    /\ pc = "x_while"
    /\ LET s == ColumnStep(column_count, end_column) IN
         /\ column_count' = s.column_count
         /\ end_column' = s.end_column
         /\ pc' = IF s.column_count # 0 THEN "x_while" ELSE "x_fetch"
    /\ UNCHANGED << CONTINUE_ON_CONNECTOR_FAILURE, caller, file, convertVars, basic,
                    exc, xcaught, sheetVars, declared, trace >>

\* text of the section of the i-th sheet: "Sheet: <name>\n" and its rows
SheetText(i) == "Sheet: " \o SheetName(i) \o "\n" \o "rows\n"

\* `except HttpError` around the values().get() of one sheet
SheetFetchHandlesNothing(e) == FALSE

SheetFetchHandles(e) == IsHttpError(e)

\* values().get(range=range_name).execute() for the current sheet, the section
\* it yields, the inner handler, and the step of the for-loop
SheetValues ==
    /\ pc = "x_fetch"
    /\ \E o \in { Ok("values"), Ok("empty") } \cup Fails(SheetsErrors) :
         /\ trace' = Append(trace, Ev("values.get", SheetName(sheet_idx), o.ret, o.exc))
         /\ IF o.ret = "raise" /\ ~SheetFetchHandles(o.exc)
              THEN /\ exc' = o.exc
                   /\ pc' = "x_sheets_except"
                   /\ UNCHANGED << sheetVars, basic >>
              ELSE LET secs ==
                         IF o.ret = "values"
                           THEN Append(xsections,
                                       Section(Link("webViewLink", SheetId(sheet_idx)),
                                               SheetText(sheet_idx)))
                           ELSE xsections
                   IN /\ xsections' = secs
                      /\ exc' = NoExc
                      /\ UNCHANGED sheet_count
                      /\ IF sheet_idx = sheet_count
                           THEN /\ basic' = Return(secs)
                                /\ pc' = "x_return"
                                /\ UNCHANGED sheet_idx
                           ELSE /\ sheet_idx' = sheet_idx + 1
                                /\ pc' = "x_sheet"
                                /\ UNCHANGED basic
    \* range_name is used up by the call; the loop locals are dead until the
    \* next sheet assigns them again
    /\ declared' = 0
    /\ column_count' = 0
    /\ end_column' = << >>
    /\ UNCHANGED << CONTINUE_ON_CONNECTOR_FAILURE, caller, file, convertVars, xcaught >>

\* `except Exception` of the sheets branch: the warning reads file['name'],
\* then control falls out of the if / elif to the export branch
SheetsExcept ==
    /\ pc = "x_sheets_except"
    /\ IF file.has_name
         THEN /\ exc' = NoExc
              /\ pc' = SecondDispatch(file.mimeType)
         ELSE /\ exc' = KeyError
              /\ pc' = "x_outer_except"
    /\ UNCHANGED << CONTINUE_ON_CONNECTOR_FAILURE, caller, file, convertVars, basic,
                    xcaught, sheetVars, columnVars, trace >>

\* the handler of the extractor's outer try block: `except Exception`
OuterHandlerReraises(e, link) == Raise(e)

OuterHandler(e, link) == Return(<< Section(link, UNSUPPORTED_FILE_TYPE_CONTENT) >>)

\* text of the section of the i-th worksheet of a workbook:
\* "Sheet: <title>\n\n" and the rows, comma-joined
WorkbookText(i) == "Sheet: " \o SheetName(i) \o "\n\n" \o "rows"

\* the Excel branch: get_media, the temporary file, openpyxl.load_workbook,
\* one section per worksheet; its own handler returns the Excel error section
\* after a warning that reads file['name']
ExcelBranch ==
    /\ pc = "x_excel"
    /\ \E m \in { Ok("bytes") } \cup Fails(ApiErrors),
          w \in { [ ret |-> "ok", n |-> n, exc |-> NoExc ] : n \in 1..MaxSheets }
                \cup { [ ret |-> "raise", n |-> 0, exc |-> OtherError ] } :
         LET media == Ev("get_media", "id", m.ret, m.exc)
             load == Ev("load_workbook", "tmp", w.ret, w.exc)
             failed == m.ret = "raise" \/ w.ret = "raise"
         IN /\ trace' = IF m.ret = "raise" THEN Append(trace, media)
                        ELSE trace \o << media, load >>
            /\ IF ~failed
                 THEN /\ basic' = Return([ i \in 1..w.n |->
                                             Section(WebViewLink, WorkbookText(i)) ])
                      /\ exc' = NoExc
                      /\ pc' = "x_return"
                 ELSE IF file.has_name
                   THEN /\ basic' = Return(<< Section(WebViewLink, EXCEL_ERROR_CONTENT) >>)
                        /\ exc' = NoExc
                        /\ pc' = "x_return"
                   ELSE /\ exc' = KeyError
                        /\ pc' = "x_outer_except"
                        /\ UNCHANGED basic
    /\ UNCHANGED << CONTINUE_ON_CONNECTOR_FAILURE, caller, file, convertVars, xcaught,
                    sheetVars, columnVars >>

\* the text a successful download or decoder yields: some content, or nothing
Texts == { "content", "" }

ExportMimeType(m) == IF m # SPREADSHEET THEN "text/plain" ELSE "text/csv"

\* export(fileId, mimeType).execute().decode("utf-8") for Google Docs, Slides
\* and, as the fallback, Sheets
ExportBranch ==
    /\ pc = "x_export"
    /\ \E o \in { Ok(t) : t \in Texts } \cup Fails(ApiErrors) :
         /\ trace' = Append(trace, Ev("export", ExportMimeType(file.mimeType), o.ret, o.exc))
         /\ IF o.ret # "raise"
              THEN /\ basic' = Return(<< Section(WebViewLink, o.ret) >>)
                   /\ exc' = NoExc
                   /\ pc' = "x_return"
              ELSE /\ exc' = o.exc
                   /\ pc' = "x_outer_except"
                   /\ UNCHANGED basic
    /\ UNCHANGED << CONTINUE_ON_CONNECTOR_FAILURE, caller, file, convertVars, xcaught,
                    sheetVars, columnVars >>

\* get_media(fileId).execute().decode("utf-8") for plain text and Markdown
PlainBranch ==
    /\ pc = "x_plain"
    /\ \E o \in { Ok(t) : t \in Texts } \cup Fails(ApiErrors) :
         /\ trace' = Append(trace, Ev("get_media", "id", o.ret, o.exc))
         /\ IF o.ret # "raise"
              THEN /\ basic' = Return(<< Section(WebViewLink, o.ret) >>)
                   /\ exc' = NoExc
                   /\ pc' = "x_return"
              ELSE /\ exc' = o.exc
                   /\ pc' = "x_outer_except"
                   /\ UNCHANGED basic
    /\ UNCHANGED << CONTINUE_ON_CONNECTOR_FAILURE, caller, file, convertVars, xcaught,
                    sheetVars, columnVars >>

\* the decoder of the Word / PowerPoint / PDF branch
Decoder(m, api_key) ==
    IF api_key THEN "unstructured_to_text"
    ELSE IF m = WORD_DOC THEN "docx_to_text"
    ELSE IF m = PDF THEN "read_pdf_file"
    ELSE "pptx_to_text"

\* get_media, then the unstructured API when its key is configured, else the
\* decoder of the format
BinaryBranch ==
    /\ pc = "x_binary"
    /\ \E m \in { Ok("bytes") } \cup Fails(ApiErrors),
          api_key \in BOOLEAN,
          d \in { Ok(t) : t \in Texts } \cup Fails({ OtherError }) :
         LET media == Ev("get_media", "id", m.ret, m.exc)
             decode == Ev(Decoder(file.mimeType, api_key), "bytes", d.ret, d.exc)
         IN IF m.ret = "raise"
              THEN /\ trace' = Append(trace, media)
                   /\ exc' = m.exc
                   /\ pc' = "x_outer_except"
                   /\ UNCHANGED basic
              ELSE /\ trace' = trace \o << media, decode >>
                   /\ IF d.ret # "raise"
                        THEN /\ basic' = Return(<< Section(WebViewLink, d.ret) >>)
                             /\ exc' = NoExc
                             /\ pc' = "x_return"
                        ELSE /\ exc' = d.exc
                             /\ pc' = "x_outer_except"
                             /\ UNCHANGED basic
    /\ UNCHANGED << CONTINUE_ON_CONNECTOR_FAILURE, caller, file, convertVars, xcaught,
                    sheetVars, columnVars >>

\* the catch-all after the branches: raise ValueError("Unsupported file type")
CatchAll ==
    /\ pc = "x_catch_all"
    /\ exc' = ValueError
    /\ pc' = "x_outer_except"
    /\ UNCHANGED << CONTINUE_ON_CONNECTOR_FAILURE, caller, file, convertVars, basic,
                    xcaught, sheetVars, columnVars, trace >>

\* `except Exception: return [Section(link, UNSUPPORTED_FILE_TYPE_CONTENT)]`
ExtractOuterExcept ==
    /\ pc = "x_outer_except"
    /\ basic' = OuterHandler(exc, WebViewLink)
    /\ xcaught' = exc
    /\ exc' = NoExc
    /\ pc' = "x_return"
    /\ UNCHANGED << CONTINUE_ON_CONNECTOR_FAILURE, caller, file, convertVars,
                    sheetVars, columnVars, trace >>

\* ============================================ convert_drive_item_to_document

\* a call of convert_drive_item_to_document: shortcuts and folders are
\* skipped, a Google Doc goes to get_document_sections first
ConvertEntry ==
    /\ pc = "idle"
    /\ \E f \in Files :
         /\ file' = f
         /\ IF f.mimeType \in { DRIVE_SHORTCUT_TYPE, DRIVE_FOLDER_TYPE }
              THEN /\ result' = None
                   /\ pc' = "done"
              ELSE /\ result' = Pending
                   /\ pc' = IF f.mimeType = DOC THEN "c_docs" ELSE "c_generic"
    /\ caller' = "convert"
    /\ sections' = << >>
    /\ UNCHANGED << CONTINUE_ON_CONNECTOR_FAILURE, basic, exc, xcaught, ccaught,
                    sheetVars, columnVars, trace >>

DocLink == Link("docs", NoGid)

\* what get_document_sections can return: a list of sections, possibly empty,
\* with texts that may be blank
DocSectionLists ==
    UNION { { [ i \in 1..k |-> Section(DocLink, t[i]) ] : t \in [ 1..k -> Texts ] } :
            k \in 0..MaxDocSections }

\* get_document_sections(docs_service, file["id"]); on an exception the
\* warning reads file['name'] and the generic extraction follows
GetDocumentSections ==
    /\ pc = "c_docs"
    /\ \E o \in { [ ret |-> "ok", secs |-> s, exc |-> NoExc ] : s \in DocSectionLists }
             \cup { [ ret |-> "raise", secs |-> << >>, exc |-> e ] : e \in ApiErrors } :
         /\ trace' = Append(trace, Ev("get_document_sections", "id", o.ret, o.exc))
         /\ IF o.ret = "ok"
              THEN /\ sections' = o.secs
                   /\ exc' = NoExc
                   /\ pc' = "c_generic"
              ELSE IF file.has_name
                THEN /\ sections' = << >>
                     /\ exc' = NoExc
                     /\ pc' = "c_generic"
                ELSE /\ sections' = << >>
                     /\ exc' = KeyError
                     /\ pc' = "c_except"
    /\ UNCHANGED << CONTINUE_ON_CONNECTOR_FAILURE, caller, file, result, basic,
                    xcaught, ccaught, sheetVars, columnVars >>

\* `if not sections:` the generic extraction runs when nothing was extracted
ConvertGeneric ==
    /\ pc = "c_generic"
    /\ pc' = IF sections = << >> THEN "x_entry" ELSE "c_build"
    /\ UNCHANGED << CONTINUE_ON_CONNECTOR_FAILURE, caller, file, convertVars, basic,
                    exc, xcaught, sheetVars, columnVars, trace >>

\* `if e.status_code == 403 and reason in ERRORS_TO_CONTINUE_ON`
SkipSilently(e) == e.status = 403 /\ e.reason \in ERRORS_TO_CONTINUE_ON

\* the second `if not sections: return None`
DropsNothing(secs) == FALSE

Drops(secs) == secs = << >>

\* the return of _extract_sections_basic into the assembler: its sections,
\* or the `except HttpError` handler, or the way to the outer handler
ConvertAfterExtract ==
    /\ pc = "x_return"
    /\ caller = "convert"
    /\ IF basic.kind = "return"
         THEN /\ sections' = basic.sections
              /\ exc' = NoExc
              /\ IF Drops(basic.sections)
                   THEN /\ result' = None
                        /\ pc' = "done"
                   ELSE /\ result' = Pending
                        /\ pc' = "c_build"
         ELSE IF IsHttpError(basic.exc) /\ SkipSilently(basic.exc)
           THEN /\ result' = None
                /\ exc' = NoExc
                /\ pc' = "done"
                /\ UNCHANGED sections
           ELSE /\ exc' = basic.exc
                /\ pc' = "c_except"
                /\ UNCHANGED << sections, result >>
    /\ UNCHANGED << CONTINUE_ON_CONNECTOR_FAILURE, caller, file, basic, xcaught,
                    ccaught, sheetVars, columnVars, trace >>

\* `{} if any(section.text for section in sections) else {IGNORE_FOR_QA: "True"}`
MetadataAnyBlank(secs) ==
    IF \A i \in 1..Len(secs) : secs[i].text # "" THEN {} ELSE { IGNORE_FOR_QA }

Metadata(secs) ==
    IF \E i \in 1..Len(secs) : secs[i].text # "" THEN {} ELSE { IGNORE_FOR_QA }

\* Document(...): file["name"] and datetime.fromisoformat(file["modifiedTime"])
\* can raise
BuildDocument ==
    /\ pc = "c_build"
    /\ IF ~file.has_name
         THEN /\ exc' = KeyError
              /\ pc' = "c_except"
              /\ UNCHANGED result
         ELSE IF file.modifiedTime = "malformed"
           THEN /\ exc' = ValueError
                /\ pc' = "c_except"
                /\ UNCHANGED result
           ELSE /\ result' = Document(sections, Metadata(sections))
                /\ exc' = NoExc
                /\ pc' = "done"
    /\ UNCHANGED << CONTINUE_ON_CONNECTOR_FAILURE, caller, file, sections, basic,
                    xcaught, ccaught, sheetVars, columnVars, trace >>

\* `if not CONTINUE_ON_CONNECTOR_FAILURE: raise e`
ReraisesNever(continue_on_failure) == FALSE

Reraises(continue_on_failure) == ~continue_on_failure

\* the assembler's outer `except Exception`
ConvertExcept ==
    /\ pc = "c_except"
    /\ ccaught' = exc
    /\ result' = IF Reraises(CONTINUE_ON_CONNECTOR_FAILURE) THEN Raise(exc) ELSE None
    /\ exc' = NoExc
    /\ pc' = "done"
    /\ UNCHANGED << CONTINUE_ON_CONNECTOR_FAILURE, caller, file, sections, basic,
                    xcaught, sheetVars, columnVars, trace >>

\* ================================================================ behaviour
Next ==
    \/ CallExtract
    \/ ExtractEntry
    \/ SheetsMetadata
    \/ SheetHead
    \/ ColumnLoop
    \/ SheetValues
    \/ SheetsExcept
    \/ ExcelBranch
    \/ ExportBranch
    \/ PlainBranch
    \/ BinaryBranch
    \/ CatchAll
    \/ ExtractOuterExcept
    \/ ConvertEntry
    \/ GetDocumentSections
    \/ ConvertGeneric
    \/ ConvertAfterExtract
    \/ BuildDocument
    \/ ConvertExcept

Spec == Init /\ [][Next]_vars

\* =================================================================== claims

\* _extract_sections_basic has come back to its caller
ExtractReturned == basic.kind \in { "return", "raise" }

\* convert_drive_item_to_document has come back to its caller
ConvertDone == caller = "convert" /\ pc = "done"

SentinelSections == << Section(WebViewLink, UNSUPPORTED_FILE_TYPE_CONTENT) >>

\* the calls of the generic extraction (everything but the structured
\* Google Docs extractor) that ended in an HttpError with status 403
Http403InExtraction ==
    { i \in DOMAIN trace : /\ trace[i].call # "get_document_sections"
                           /\ trace[i].ret = "raise"
                           /\ IsHttpError(trace[i].exc)
                           /\ trace[i].exc.status = 403 }

Called(name) == \E i \in DOMAIN trace : trace[i].call = name

MetadataFailed ==
    \E i \in DOMAIN trace : trace[i].call = "spreadsheets.get" /\ trace[i].ret = "raise"

IsFetch(ev) == ev.call = "values.get"

\* the values().get() calls, one per sheet reached, in sheet order
FetchTrace == SelectSeq(trace, IsFetch)

FetchesThatRaised == { j \in DOMAIN FetchTrace : FetchTrace[j].ret = "raise" }

\* the sections of the sheets j.. whose fetch returned values, in sheet order
RECURSIVE SheetSections(_, _)
SheetSections(ft, j) ==
    IF j > Len(ft) THEN << >>
    ELSE ( IF ft[j].ret = "values"
             THEN << Section(Link("webViewLink", SheetId(j)), SheetText(j)) >>
             ELSE << >> ) \o SheetSections(ft, j + 1)

\* C1: the Section Extractor never propagates an exception: for every
\* supported MIME type, however the collaborators fail, the call returns a
\* list of sections, and when an exception escaped the strategy branches to
\* the outer handler that list is exactly one section with the file's view
\* link and the 'unsupported file type' sentinel text.
C1_ExtractorNeverRaises ==
    file.mimeType \in GDriveMimeType =>
        /\ basic.kind # "raise"
        /\ xcaught # NoExc => basic = Return(SentinelSections)

C1_Witness ==
    /\ file.mimeType \in GDriveMimeType
    /\ IsHttpError(xcaught)
    /\ basic = Return(SentinelSections)

\* C2: an HttpError with status 403 and a reason in ERRORS_TO_CONTINUE_ON
\* raised during the generic extraction makes convert_drive_item_to_document
\* return None (no Document, no exception).
C2_BenignExportErrorSkipsFile ==
    ( /\ ConvertDone
      /\ \E i \in Http403InExtraction : trace[i].exc.reason \in ERRORS_TO_CONTINUE_ON )
    => result = None

\* C3: an HttpError with status 403 and a reason outside
\* ERRORS_TO_CONTINUE_ON raised during the generic extraction propagates out
\* of convert_drive_item_to_document. (Stated for the configuration in which
\* the assembler's outer handler re-raises what reaches it.)
C3_UnlistedHttpErrorPropagates ==
    ( /\ ConvertDone
      /\ ~CONTINUE_ON_CONNECTOR_FAILURE
      /\ \E i \in Http403InExtraction : trace[i].exc.reason \notin ERRORS_TO_CONTINUE_ON )
    => result.kind = "raise"

\* C4, as claimed: when the spreadsheet metadata call fails, the extractor
\* produces its result with the binary-spreadsheet strategy (get_media and a
\* workbook parse). (Stated for the calls in which nothing reached the outer
\* safety net, so the result is the fallback's own.)
C4_MetadataFailureUsesWorkbook ==
    ( ExtractReturned /\ MetadataFailed /\ xcaught = NoExc ) =>
        /\ Called("get_media")
        /\ Called("load_workbook")

\* C4, amended: when the spreadsheet metadata call fails, the extractor falls
\* through to the export strategy: it never calls get_media or the workbook
\* parser, it asks for a text/csv export (unless the fallback warning itself
\* fails for lack of file['name']), and it returns exactly one section with
\* the view link: the exported text when the export succeeds, the sentinel
\* otherwise. The result is never empty.
C4_MetadataFailureUsesExport ==
    ( ExtractReturned /\ MetadataFailed ) =>
        /\ ~Called("get_media")
        /\ ~Called("load_workbook")
        /\ basic.kind = "return"
        /\ IF file.has_name
             THEN LET last == trace[Len(trace)] IN
                    /\ last.call = "export"
                    /\ last.arg = "text/csv"
                    /\ basic.sections =
                         IF last.ret = "raise" THEN SentinelSections
                         ELSE << Section(WebViewLink, last.ret) >>
             ELSE /\ ~Called("export")
                  /\ basic.sections = SentinelSections

C4_Witness ==
    /\ ExtractReturned
    /\ MetadataFailed
    /\ Called("export")
    /\ basic = Return(<< Section(WebViewLink, "content") >>)

\* the case of C5: the metadata call succeeded, the fetch raised for exactly
\* one sheet, and no fetch came back without values
OneFetchRaised ==
    /\ ExtractReturned
    /\ Called("spreadsheets.get")
    /\ ~MetadataFailed
    /\ Cardinality(FetchesThatRaised) = 1
    /\ \A j \in DOMAIN FetchTrace : FetchTrace[j].ret # "empty"

\* the result of C5: one section per other sheet, in sheet order, each with
\* the link '<view link>#gid=<sheet id>'
OtherSheetsExtracted ==
    /\ Len(FetchTrace) = sheet_count
    /\ basic = Return(SheetSections(FetchTrace, 1))
    /\ Len(basic.sections) = sheet_count - 1
    /\ \A k \in DOMAIN basic.sections : basic.sections[k].link.gid # NoGid

\* C5, as claimed: a fetch that raises for one sheet skips that sheet only.
\* (Stated for the calls in which nothing reached the outer safety net.)
C5_FetchFailureSkipsSheet ==
    ( OneFetchRaised /\ xcaught = NoExc ) => OtherSheetsExtracted

\* C5, amended: a fetch that raises an HttpError for one sheet skips that
\* sheet only: with N non-empty sheets and an HttpError for exactly one of
\* them the result is the N-1 sections of the other sheets, in sheet order,
\* each with its gid link. (Any other exception leaves the sheets branch.)
C5_HttpFetchFailureSkipsSheet ==
    ( /\ OneFetchRaised
      /\ \A j \in FetchesThatRaised : IsHttpError(FetchTrace[j].exc) )
    => OtherSheetsExtracted

C5_Witness ==
    /\ OneFetchRaised
    /\ sheet_count = 3
    /\ \A j \in FetchesThatRaised : IsHttpError(FetchTrace[j].exc)
    /\ Len(basic.sections) = 2

\* C6: every Document returned has at least one section; when the
\* extraction yields no section the assembler returns None.
C6_NoEmptyDocument ==
    /\ result.kind = "doc" => Len(result.sections) >= 1
    /\ ( ConvertDone /\ basic = Return(<< >>) ) => result = None

C6_Witness ==
    /\ ConvertDone
    /\ file.mimeType = SPREADSHEET
    /\ Len(FetchTrace) = sheet_count
    /\ basic = Return(<< >>)
    /\ result = None

\* C7: an exception that reaches the assembler's outer handler propagates
\* to the caller when CONTINUE_ON_CONNECTOR_FAILURE is false and is swallowed
\* (None is returned) when it is true.
C7_ContinueOnFailure ==
    /\ ( ConvertDone /\ ccaught # NoExc ) =>
           result = IF CONTINUE_ON_CONNECTOR_FAILURE THEN None ELSE Raise(ccaught)
    /\ result.kind = "raise" => ( ~CONTINUE_ON_CONNECTOR_FAILURE /\ ccaught # NoExc )

C7_Witness ==
    /\ ConvertDone
    /\ ~CONTINUE_ON_CONNECTOR_FAILURE
    /\ ccaught = ValueError
    /\ result = Raise(ValueError)

\* C8: for a MIME type outside GDriveMimeType the extractor returns exactly
\* one section, with the sentinel text and the file's view link, and calls
\* no collaborator.
C8_UnsupportedMimeType ==
    ( /\ ExtractReturned
      /\ file.mimeType # MimeAbsent
      /\ file.mimeType \notin GDriveMimeType )
    => ( basic = Return(SentinelSections) /\ trace = << >> /\ xcaught = NoExc )

C8_Witness ==
    /\ ExtractReturned
    /\ file.mimeType = IMAGE_PNG
    /\ basic = Return(SentinelSections)

LetterIndex(ch) == CHOOSE i \in 1..26 : Letters[i] = ch

\* the number a column label stands for, in bijective base 26 (A = 1 .. Z = 26)
RECURSIVE LabelValue(_)
LabelValue(label) ==
    IF label = << >> THEN 0
    ELSE 26 * LabelValue(SubSeq(label, 1, Len(label) - 1)) + LetterIndex(label[Len(label)])

RECURSIVE Pow26(_)
Pow26(k) == IF k = 0 THEN 1 ELSE 26 * Pow26(k - 1)

\* inside the loop the letters found so far are the low digits of the
\* declared count; after it they are its label
ColumnLabelCorrect ==
    /\ pc = "x_while" =>
         /\ column_count >= 1
         /\ column_count * Pow26(Len(end_column)) + LabelValue(end_column) = declared
    /\ pc = "x_fetch" =>
         /\ declared >= 1
         /\ column_count = 0
         /\ Len(end_column) >= 1
         /\ LabelValue(end_column) = declared
         /\ declared = 1 => end_column = << "A" >>
         /\ declared = 26 => end_column = << "Z" >>
         /\ declared = 27 => end_column = << "A", "A" >>
         /\ declared = 52 => end_column = << "A", "Z" >>
         /\ declared = 702 => end_column = << "Z", "Z" >>
         /\ declared = 703 => end_column = << "A", "A", "A" >>

\* every pass of the loop makes column_count smaller and keeps it >= 0
ColumnLoopDecreases ==
    pc = "x_while" => ( column_count' >= 0 /\ column_count' < column_count )

\* C9: the column-count-to-letter loop is the bijective base-26 conversion:
\* for every declared count n >= 1 it terminates (column_count falls on every
\* pass) with the label of n over A-Z, never empty (1 -> A, 26 -> Z,
\* 27 -> AA, 52 -> AZ, 702 -> ZZ, 703 -> AAA).
C9_ColumnLetters == []ColumnLabelCorrect /\ [][ColumnLoopDecreases]_vars

C9_Witness ==
    /\ pc = "x_fetch"
    /\ declared = 703
    /\ end_column = << "A", "A", "A" >>

\* C10: a returned Document carries IGNORE_FOR_QA in its metadata exactly
\* when the text of every section is empty; otherwise its metadata is empty.
C10_IgnoreForQa ==
    result.kind = "doc" =>
        LET blank == \A i \in DOMAIN result.sections : result.sections[i].text = ""
        IN /\ IGNORE_FOR_QA \in result.metadata <=> blank
           /\ ~blank => result.metadata = {}

C10_Witness ==
    /\ result.kind = "doc"
    /\ result.metadata = { IGNORE_FOR_QA }
    /\ \A i \in DOMAIN result.sections : result.sections[i].text = ""

====
